---- MODULE Spec2Model ----
(***************************************************************************)
(* Instance registry and focus dispatcher of the surface experiment.       *)
(*                                                                         *)
(* The registry (surfaceInstances) maps a datum id to the list of its live *)
(* instance numbers; the store (state$) holds the overlay flag and the     *)
(* optional focus pointer.  Every operation runs to completion on the      *)
(* single JavaScript thread, so each one is one atomic action.             *)
(***************************************************************************)
EXTENDS Integers, Sequences, FiniteSets

\* ---- bounds ------------------------------------------------------------
\* Largest instance number registerInstance may hand out in the model.
MaxInstance == 3

\* The datum ids the operations are called with.
Ids == {7, 9}

Instances == 0..MaxInstance

\* Largest number of nodes of a Datum[] handed to collectIds.
MaxNodes == 4

\* The ids the nodes of such a tree carry.
TreeIds == {1, 2, 3}

\* ---- JavaScript values ---------------------------------------------------
\* `undefined`: what a missing array element, `.at(0)` on an empty array, or
\* the optional field `instance?: number` yields.
Undefined == -1

\* An absent `focus` field: `draft.focus?.id` evaluates to undefined.
NoFocus == [id |-> Undefined, instance |-> Undefined]

VARIABLES
    surfaceInstances,   \* Record<number, number[]>: id -> live instance list
    state,              \* the value of the atom state$: [overlays, focus]
    last,               \* the last call made: [op, id, instance, ret]
    pre,                \* registry, store and released as they were before that call
    released,           \* id -> numbers removed from id's list since it was last empty
    visited,            \* [id, seq]: instances focused by consecutive FOCUS_SURFACE(id)
    occ,                \* tree position -> the Surface rendered there: [phase, instance, surfaceInstance]
    actor,              \* the tree position whose Surface took the last step, 0 for none
    toggled,            \* [n, start]: consecutive overlay toggles and the store before them
    forest,             \* a Datum[] handed to collectIds
    collected,          \* the Set collectIds returned for forest, in insertion order
    added,              \* the ids put into forest, one by one
    scroll              \* tree position -> [fired, wasMatched]: scrollIntoView in the last step

vars == <<surfaceInstances, state, last, pre, released, visited,
          occ, actor, toggled, forest, collected, added, scroll>>

\* The variables of the Surface components, of the overlay toggle and of the
\* tree model; the registry and dispatcher specifications leave them alone.
surfaceVars == <<occ, actor>>
toggleVars == <<toggled>>
treeVars == <<forest, collected, added>>
scrollVars == <<scroll>>

\* ---- array helpers (0-based indices, as in the source) -------------------
Range(s) == {s[i] : i \in 1..Len(s)}

\* Math.max(...xs) for a non-empty array of numbers.
Max(xs) == CHOOSE m \in Range(xs) : \A x \in Range(xs) : x <= m

\* Array.prototype.indexOf: index of the first match, -1 when there is none.
IndexOf(xs, x) ==
    IF \E i \in 1..Len(xs) : xs[i] = x
    THEN (CHOOSE i \in 1..Len(xs) : xs[i] = x /\ \A j \in 1..(i - 1) : xs[j] # x) - 1
    ELSE -1

\* xs[i] for any integer i: undefined outside the array.
At(xs, i) == IF i >= 0 /\ i < Len(xs) THEN xs[i + 1] ELSE Undefined

\* xs.splice(index): drops everything from `index` on.
Splice_ToEnd(xs, index) == [i \in 1..index |-> xs[i]]

\* xs.splice(index, 1): the array without the element at `index`.
Splice(xs, index) ==
    [i \in 1..(Len(xs) - 1) |-> IF i <= index THEN xs[i] ELSE xs[i + 1]]

\* a ?? b
Coalesce(a, b) == IF a = Undefined THEN b ELSE a

\* ---- registry reads -------------------------------------------------------
\* `!surfaceInstances[id]` is false exactly when the key has been assigned.
HasEntry(reg, id) == id \in DOMAIN reg

InstancesIn(reg, id) == IF HasEntry(reg, id) THEN reg[id] ELSE <<>>

getInstances(id) == InstancesIn(surfaceInstances, id)

\* A successor that stops at the end of the list instead of wrapping.
nextInstance_NoWrap(id, instance) ==
    LET instances == getInstances(id)
        index == IndexOf(instances, instance)
    IN  Coalesce(At(instances, index + 1), At(instances, index))

nextInstance(id, instance) ==
    LET instances == getInstances(id)
        index == IndexOf(instances, instance)
    IN  Coalesce(At(instances, index + 1), At(instances, 0))

\* ---- the rendered tree ----------------------------------------------------
\* The datum id at each tree position a Surface can be rendered at; as in
\* exampleData, one datum occurs at several positions.
Occurrences == <<7, 7, 9>>

Positions == DOMAIN Occurrences

\* No Surface at a position: nothing rendered, no effect closure.
NoSurface == [phase |-> "unmounted", instance |-> Undefined, surfaceInstance |-> Undefined]

\* No overlay toggle has been made since the last other call.
NoToggle == [n |-> 0, start |-> [overlays |-> TRUE, focus |-> NoFocus]]

\* No run of focus commands is being followed.
NoVisit == [id |-> Undefined, seq |-> <<>>]

\* ---- bookkeeping of the call being made ----------------------------------
Call(op, id, instance, ret) ==
    /\ last' = [op |-> op, id |-> id, instance |-> instance, ret |-> ret]
    /\ pre' = [surfaceInstances |-> surfaceInstances, state |-> state,
                released |-> released]

\* ---- registry writes ------------------------------------------------------
\* A numbering that takes the list length as the next number.
NewInstance_Length(id) ==
    IF ~HasEntry(surfaceInstances, id) THEN 0 ELSE Len(surfaceInstances[id])

\* A numbering that takes the lowest number not in the list.
NewInstance_LowestFree(id) ==
    CHOOSE n \in 0..(MaxInstance + 1) :
        /\ n \notin Range(getInstances(id))
        /\ \A m \in 0..(n - 1) : m \in Range(getInstances(id))

\* The number registerInstance(id) assigns.
NewInstance(id) ==
    IF ~HasEntry(surfaceInstances, id) \/ Len(surfaceInstances[id]) = 0
    THEN 0
    ELSE Max(surfaceInstances[id]) + 1

registerInstance(id) ==
    /\ NewInstance(id) <= MaxInstance
    /\ IF ~HasEntry(surfaceInstances, id) \/ Len(surfaceInstances[id]) = 0
       THEN surfaceInstances' =
                [j \in DOMAIN surfaceInstances \cup {id} |->
                    IF j = id THEN <<0>> ELSE surfaceInstances[j]]
       ELSE surfaceInstances' =
                [surfaceInstances EXCEPT ![id] = Append(@, NewInstance(id))]
    /\ Call("register", id, Undefined, NewInstance(id))
    /\ UNCHANGED state

\* A removal without the `index !== -1` test: splice(-1, 1) drops the last element.
removeInstance_NoIndexTest(id, instance) ==
    /\ IF ~HasEntry(surfaceInstances, id)
       THEN UNCHANGED surfaceInstances
       ELSE LET index == IndexOf(surfaceInstances[id], instance)
                n == Len(surfaceInstances[id])
            IN  surfaceInstances' =
                    [surfaceInstances EXCEPT
                        ![id] = IF n = 0 THEN @
                                ELSE Splice(@, IF index = -1 THEN n - 1 ELSE index)]
    /\ Call("remove", id, instance, Undefined)
    /\ UNCHANGED state

\* A removal that also drops a focus pointing at the removed instance.
removeInstance_ClearsFocus(id, instance) ==
    /\ IF ~HasEntry(surfaceInstances, id)
       THEN UNCHANGED surfaceInstances
       ELSE LET index == IndexOf(surfaceInstances[id], instance)
            IN  IF index # -1
                THEN surfaceInstances' =
                         [surfaceInstances EXCEPT ![id] = Splice(@, index)]
                ELSE UNCHANGED surfaceInstances
    /\ Call("remove", id, instance, Undefined)
    /\ state' = IF state.focus = [id |-> id, instance |-> instance]
                THEN [state EXCEPT !.focus = NoFocus]
                ELSE state

removeInstance(id, instance) ==
    /\ IF ~HasEntry(surfaceInstances, id)
       THEN UNCHANGED surfaceInstances
       ELSE LET index == IndexOf(surfaceInstances[id], instance)
            IN  IF index # -1
                THEN surfaceInstances' =
                         [surfaceInstances EXCEPT ![id] = Splice(@, index)]
                ELSE UNCHANGED surfaceInstances
    /\ Call("remove", id, instance, Undefined)
    /\ UNCHANGED state

\* A direct call of nextInstance(id, current): reads only.
callNextInstance(id, current) ==
    /\ Call("next", id, current, nextInstance(id, current))
    /\ UNCHANGED <<surfaceInstances, state>>

\* ---- dispatcher -----------------------------------------------------------
\* A recipe that takes the first instance whatever the current focus is.
FocusAfter_AlwaysFirst(surfaceId) ==
    [id |-> surfaceId, instance |-> At(getInstances(surfaceId), 0)]

\* The focus the FOCUS_SURFACE recipe leaves in the draft.
FocusAfter(surfaceId) ==
    IF state.focus.id = surfaceId
    THEN [id |-> surfaceId, instance |-> nextInstance(surfaceId, state.focus.instance)]
    ELSE [id |-> surfaceId, instance |-> At(getInstances(surfaceId), 0)]

\* A focus command that creates the registry entry it reads.
dispatch_CreatesEntry(surfaceId) ==
    /\ state' = [state EXCEPT !.focus = FocusAfter(surfaceId)]
    /\ Call("focus", surfaceId, Undefined, Undefined)
    /\ surfaceInstances' =
           [j \in DOMAIN surfaceInstances \cup {surfaceId} |-> getInstances(j)]

dispatch(surfaceId) ==
    /\ state' = [state EXCEPT !.focus = FocusAfter(surfaceId)]
    /\ Call("focus", surfaceId, Undefined, Undefined)
    /\ UNCHANGED surfaceInstances

\* ---- specification --------------------------------------------------------
Init ==
    /\ surfaceInstances = [j \in {} |-> <<>>]
    /\ state = [overlays |-> TRUE, focus |-> NoFocus]
    /\ last = [op |-> "init", id |-> Undefined, instance |-> Undefined, ret |-> Undefined]
    /\ pre = [surfaceInstances |-> [j \in {} |-> <<>>],
              state |-> [overlays |-> TRUE, focus |-> NoFocus],
              released |-> [j \in Ids |-> {}]]
    /\ released = [j \in Ids |-> {}]
    /\ visited = NoVisit
    /\ occ = [o \in Positions |-> NoSurface]
    /\ actor = 0
    /\ toggled = NoToggle
    /\ forest = <<>>
    /\ collected = <<>>
    /\ added = {}
    /\ scroll = [o \in Positions |-> [fired |-> FALSE, wasMatched |-> FALSE]]

\* Any sequence of registry calls and focus commands.
Register == \E id \in Ids : registerInstance(id)
Remove == \E id \in Ids, instance \in Instances : removeInstance(id, instance)
QueryNext == \E id \in Ids, current \in Instances \cup {Undefined} : callNextInstance(id, current)
Focus == \E surfaceId \in Ids : dispatch(surfaceId)

Next ==
    \/ Register /\ UNCHANGED <<released, visited, surfaceVars, toggleVars, treeVars, scrollVars>>
    \/ Remove /\ UNCHANGED <<released, visited, surfaceVars, toggleVars, treeVars, scrollVars>>
    \/ QueryNext /\ UNCHANGED <<released, visited, surfaceVars, toggleVars, treeVars, scrollVars>>
    \/ Focus /\ UNCHANGED <<released, visited, surfaceVars, toggleVars, treeVars, scrollVars>>

Spec == Init /\ [][Next]_vars

\* ---- registry calls, following the released numbers -----------------------
\* released[id] holds the numbers removed from id's list since that list was
\* last empty and not handed out again since.
ReleasedAfterRegister(id) ==
    [released EXCEPT ![id] = @ \ {NewInstance(id)}]

ReleasedAfterRemove(id, instance) ==
    IF instance \in Range(getInstances(id))
    THEN [released EXCEPT
             ![id] = IF Len(getInstances(id)) > 1 THEN @ \cup {instance} ELSE {}]
    ELSE released

RegisterReleased ==
    \E id \in Ids :
        registerInstance(id) /\ released' = ReleasedAfterRegister(id)

RemoveReleased ==
    \E id \in Ids, instance \in Instances :
        removeInstance(id, instance) /\ released' = ReleasedAfterRemove(id, instance)

NextRelease ==
    \/ RegisterReleased /\ UNCHANGED <<visited, surfaceVars, toggleVars, treeVars, scrollVars>>
    \/ RemoveReleased /\ UNCHANGED <<visited, surfaceVars, toggleVars, treeVars, scrollVars>>

SpecRelease == Init /\ [][NextRelease]_vars

\* ---- focus commands, following a run on one id ----------------------------
\* visited follows the focus commands on one id from the command that moved
\* the focus onto that id, for one command more than the id has instances; a
\* register or remove on that id ends the run.
VisitedAfterFocus(surfaceId) ==
    LET n == Len(getInstances(surfaceId))
    IN  IF n = 0 THEN NoVisit
        ELSE IF state.focus.id # surfaceId
        THEN [id |-> surfaceId, seq |-> <<state'.focus.instance>>]
        ELSE IF visited.id = surfaceId /\ Len(visited.seq) <= n
        THEN [visited EXCEPT !.seq = Append(@, state'.focus.instance)]
        ELSE NoVisit

VisitedAfterRegistry(id) == IF visited.id = id THEN NoVisit ELSE visited

RegisterVisited ==
    \E id \in Ids : registerInstance(id) /\ visited' = VisitedAfterRegistry(id)

RemoveVisited ==
    \E id \in Ids, instance \in Instances :
        removeInstance(id, instance) /\ visited' = VisitedAfterRegistry(id)

FocusVisited ==
    \E surfaceId \in Ids :
        dispatch(surfaceId) /\ visited' = VisitedAfterFocus(surfaceId)

NextCycle ==
    \/ RegisterVisited /\ UNCHANGED <<released, surfaceVars, toggleVars, treeVars, scrollVars>>
    \/ RemoveVisited /\ UNCHANGED <<released, surfaceVars, toggleVars, treeVars, scrollVars>>
    \/ FocusVisited /\ UNCHANGED <<released, surfaceVars, toggleVars, treeVars, scrollVars>>

SpecCycle == Init /\ [][NextCycle]_vars

\* ---- tree model: collectIds ------------------------------------------------
\* A Datum: a card (its payload left out) or a stack of Datums.
Card(id) == [id |-> id, type |-> "card", data |-> <<>>]
Stack(id, data) == [id |-> id, type |-> "stack", data |-> data]

\* new Set(xs): the elements of xs in order of first occurrence.
RECURSIVE NewSet(_)
NewSet(xs) ==
    IF xs = <<>> THEN <<>>
    ELSE LET front == NewSet(SubSeq(xs, 1, Len(xs) - 1))
             x == xs[Len(xs)]
         IN  IF x \in Range(front) THEN front ELSE Append(front, x)

\* A collection that leaves out the id of a stack itself.
RECURSIVE collectIds_ChildrenOnly(_)
collectIds_ChildrenOnly(data) ==
    LET ids(datum) ==
            IF datum.type = "stack"
            THEN collectIds_ChildrenOnly(datum.data)
            ELSE <<datum.id>>
        RECURSIVE flatMap(_)
        flatMap(n) == IF n = 0 THEN <<>> ELSE flatMap(n - 1) \o ids(data[n])
    IN  NewSet(flatMap(Len(data)))

RECURSIVE collectIds(_)
collectIds(data) ==
    LET ids(datum) ==
            IF datum.type = "stack"
            THEN <<datum.id>> \o collectIds(datum.data)
            ELSE <<datum.id>>
        RECURSIVE flatMap(_)
        flatMap(n) == IF n = 0 THEN <<>> ELSE flatMap(n - 1) \o ids(data[n])
    IN  NewSet(flatMap(Len(data)))

\* The number of nodes of a Datum[].
RECURSIVE Size(_)
Size(data) ==
    LET RECURSIVE sum(_)
        sum(n) == IF n = 0 THEN 0 ELSE sum(n - 1) + 1 + Size(data[n].data)
    IN  sum(Len(data))

\* The trees are built node by node: a new node becomes the last root
\* (depth 0) or the last child of the stack that ends the level above.
RECURSIVE CanAddAt(_, _)
CanAddAt(data, depth) ==
    \/ depth = 0
    \/ /\ Len(data) > 0
       /\ data[Len(data)].type = "stack"
       /\ CanAddAt(data[Len(data)].data, depth - 1)

RECURSIVE AddAt(_, _, _)
AddAt(data, depth, datum) ==
    IF depth = 0 THEN Append(data, datum)
    ELSE [data EXCEPT ![Len(data)].data = AddAt(@, depth - 1, datum)]

\* Extend the tree by one node and collect its ids.
AddDatum(depth, datum) ==
    /\ Size(forest) < MaxNodes
    /\ CanAddAt(forest, depth)
    /\ forest' = AddAt(forest, depth, datum)
    /\ collected' = collectIds(forest')
    /\ added' = added \cup {datum.id}

NextTree ==
    \/ \E depth \in 0..(MaxNodes - 1), id \in TreeIds :
           AddDatum(depth, Card(id))
               /\ UNCHANGED <<surfaceInstances, state, last, pre, released, visited,
                              surfaceVars, toggleVars, scrollVars>>
    \/ \E depth \in 0..(MaxNodes - 1), id \in TreeIds :
           AddDatum(depth, Stack(id, <<>>))
               /\ UNCHANGED <<surfaceInstances, state, last, pre, released, visited,
                              surfaceVars, toggleVars, scrollVars>>

SpecTree == Init /\ [][NextTree]_vars

\* ---- the store: focus commands and the overlay toggle ---------------------
\* An update that builds the new state without spreading the old one.
toggleOverlays_NoSpread ==
    /\ state' = [overlays |-> ~state.overlays, focus |-> NoFocus]
    /\ Call("toggle", Undefined, Undefined, Undefined)
    /\ UNCHANGED surfaceInstances

\* The toolbar button: update((v) => ({ ...v, overlays: !v.overlays })).
toggleOverlays ==
    /\ state' = [state EXCEPT !.overlays = ~state.overlays]
    /\ Call("toggle", Undefined, Undefined, Undefined)
    /\ UNCHANGED surfaceInstances

\* toggled counts the toggles made in a row, up to two, and keeps the store
\* as it was before the first of them.
ToggledAfterToggle ==
    IF toggled.n = 1
    THEN [n |-> 2, start |-> toggled.start]
    ELSE [n |-> 1, start |-> state]

NextStore ==
    \/ Register /\ toggled' = NoToggle /\ UNCHANGED <<released, visited, surfaceVars, treeVars, scrollVars>>
    \/ Remove /\ toggled' = NoToggle /\ UNCHANGED <<released, visited, surfaceVars, treeVars, scrollVars>>
    \/ Focus /\ toggled' = NoToggle /\ UNCHANGED <<released, visited, surfaceVars, treeVars, scrollVars>>
    \/ toggleOverlays /\ toggled' = ToggledAfterToggle
           /\ UNCHANGED <<released, visited, surfaceVars, treeVars, scrollVars>>

SpecStore == Init /\ [][NextStore]_vars

\* ---- Surface components: useSurfaceInstanceId ----------------------------
\* A Surface is rendered first with surfaceInstance undefined; its effect
\* then registers it and keeps the number in the closure of the cleanup;
\* setSurfaceInstance makes the next render show the number.  Effects and
\* cleanups run after the render that scheduled them, so other steps may
\* come in between.
MountSurface(o) ==
    /\ occ[o].phase = "unmounted"
    /\ occ' = [occ EXCEPT ![o] = [phase |-> "rendered", instance |-> Undefined,
                                  surfaceInstance |-> Undefined]]
    /\ actor' = o
    /\ Call("mount", Occurrences[o], Undefined, Undefined)
    /\ UNCHANGED <<surfaceInstances, state>>

\* The effect body: registerInstance(id), setSurfaceInstance(instance).
RunEffect(o) ==
    /\ occ[o].phase = "rendered"
    /\ registerInstance(Occurrences[o])
    /\ occ' = [occ EXCEPT ![o].phase = "registered", ![o].instance = last'.ret]
    /\ actor' = o

\* The render that setSurfaceInstance asked for.
RenderSurface(o) ==
    /\ occ[o].phase = "registered"
    /\ occ' = [occ EXCEPT ![o].phase = "shown", ![o].surfaceInstance = occ[o].instance]
    /\ actor' = o
    /\ Call("render", Occurrences[o], Undefined, Undefined)
    /\ UNCHANGED <<surfaceInstances, state>>

\* The Surface leaves the tree; its cleanup is pending.
UnmountSurface(o) ==
    /\ occ[o].phase \in {"registered", "shown"}
    /\ occ' = [occ EXCEPT ![o].phase = "detached", ![o].surfaceInstance = Undefined]
    /\ actor' = o
    /\ Call("unmount", Occurrences[o], Undefined, Undefined)
    /\ UNCHANGED <<surfaceInstances, state>>

\* A cleanup that takes the number from the component state.
RunCleanup_FromState(o) ==
    /\ occ[o].phase = "detached"
    /\ removeInstance(Occurrences[o], occ[o].surfaceInstance)
    /\ occ' = [occ EXCEPT ![o] = NoSurface]
    /\ actor' = o

\* A cleanup that looks the number up again: the newest number of the id.
RunCleanup_Rederived(o) ==
    /\ occ[o].phase = "detached"
    /\ removeInstance(Occurrences[o],
                      At(getInstances(Occurrences[o]), Len(getInstances(Occurrences[o])) - 1))
    /\ occ' = [occ EXCEPT ![o] = NoSurface]
    /\ actor' = o

\* A cleanup that resets the store's focus along with the removal.
RunCleanup_ResetsFocus(o) ==
    /\ occ[o].phase = "detached"
    /\ surfaceInstances' =
           [surfaceInstances EXCEPT
               ![Occurrences[o]] = SelectSeq(@, LAMBDA x : x # occ[o].instance)]
    /\ Call("remove", Occurrences[o], occ[o].instance, Undefined)
    /\ state' = [state EXCEPT !.focus = NoFocus]
    /\ occ' = [occ EXCEPT ![o] = NoSurface]
    /\ actor' = o

\* The cleanup: removeInstance(id, instance) with the closure's number.
RunCleanup(o) ==
    /\ occ[o].phase = "detached"
    /\ removeInstance(Occurrences[o], occ[o].instance)
    /\ occ' = [occ EXCEPT ![o] = NoSurface]
    /\ actor' = o

\* A focus command while Surfaces come and go.
FocusSurface(surfaceId) ==
    /\ dispatch(surfaceId)
    /\ actor' = 0
    /\ UNCHANGED occ

NextSurface ==
    \/ \E o \in Positions : MountSurface(o) /\ UNCHANGED <<released, visited, toggleVars, treeVars, scrollVars>>
    \/ \E o \in Positions : RunEffect(o) /\ UNCHANGED <<released, visited, toggleVars, treeVars, scrollVars>>
    \/ \E o \in Positions : RenderSurface(o) /\ UNCHANGED <<released, visited, toggleVars, treeVars, scrollVars>>
    \/ \E o \in Positions : UnmountSurface(o) /\ UNCHANGED <<released, visited, toggleVars, treeVars, scrollVars>>
    \/ \E o \in Positions : RunCleanup(o) /\ UNCHANGED <<released, visited, toggleVars, treeVars, scrollVars>>
    \/ \E surfaceId \in Ids : FocusSurface(surfaceId) /\ UNCHANGED <<released, visited, toggleVars, treeVars, scrollVars>>

SpecSurface == Init /\ [][NextSurface]_vars

\* React runs every pending cleanup.
SpecSurfaceFair ==
    /\ Init /\ [][NextSurface]_vars
    /\ \A o \in Positions :
           WF_vars(RunCleanup(o) /\ UNCHANGED <<released, visited, toggleVars, treeVars, scrollVars>>)

\* ---- what the last call saw and left --------------------------------------
OldList == InstancesIn(pre.surfaceInstances, last.id)
NewList == getInstances(last.id)

NoDuplicates(xs) == \A i, j \in 1..Len(xs) : i # j => xs[i] # xs[j]

\* ---- C1 -------------------------------------------------------------------
\* C1: register(id) on an id without entry or with an empty list leaves the
\* list [0] and returns 0; otherwise it returns max(list) + 1 and appends
\* that number at the end of the list.
C1_RegisterAssignsMaxPlusOne ==
    last.op = "register" =>
        IF Len(OldList) = 0
        THEN last.ret = 0 /\ HasEntry(surfaceInstances, last.id) /\ NewList = <<0>>
        ELSE /\ (last.ret - 1) \in Range(OldList)
             /\ \A x \in Range(OldList) : x <= last.ret - 1
             /\ NewList = OldList \o <<last.ret>>

\* Scenario A: after 0, 1, 2 were registered and 1 removed, register returns 3.
C1_Witness ==
    /\ last.op = "register" /\ last.id = 7
    /\ OldList = <<0, 2>> /\ last.ret = 3 /\ NewList = <<0, 2, 3>>

\* ---- C2 -------------------------------------------------------------------
\* C2: in every reachable state the live list of every id has no duplicates.
C2_Uniqueness == \A id \in Ids : NoDuplicates(getInstances(id))

\* A list with a gap, extended again, seen after a focus command.
C2_Witness ==
    /\ last.op = "focus"
    /\ getInstances(7) = <<0, 2, 3>> /\ Len(getInstances(9)) >= 2

\* ---- C3 -------------------------------------------------------------------
\* C3: register(id) never returns a number that is in id's live list at the
\* time of the call.
C3_NoReuseWhileLive ==
    last.op = "register" => last.ret \notin Range(OldList)

\* A register on a list whose lowest numbers are free again.
C3_Witness ==
    /\ last.op = "register" /\ OldList = <<1, 2>> /\ last.ret = 3


\* ---- C4 -------------------------------------------------------------------
\* C4 as stated: a number released by remove(id, k) is not returned by
\* register(id) while the list of id has stayed non-empty since the removal.
C4_NeverReusedWhileNonEmpty ==
    last.op = "register" => last.ret \notin pre.released[last.id]

\* C4: a number k released by remove(id, k) is not returned by register(id)
\* while the list of id holds a number greater than k; a released number is
\* returned again only when it exceeds every number in the list.
C4_NoReuseBelowLiveNumber ==
    last.op = "register" =>
        /\ \A k \in pre.released[last.id] :
               (\E m \in Range(OldList) : m > k) => last.ret # k
        /\ last.ret \in pre.released[last.id] =>
               \A m \in Range(OldList) : m < last.ret

\* 1 was released from [0, 1, 2]; the next register returns 3, not 1.
C4_Witness ==
    /\ last.op = "register" /\ last.id = 7
    /\ pre.released[7] = {1} /\ OldList = <<0, 2>> /\ last.ret = 3

\* ---- C6 -------------------------------------------------------------------
\* C6: with no register or remove on id in between, the focus commands on id
\* that start from a focus not on id visit the n instances of id in list
\* order, each once, and the command after those returns to the first.
C6_CyclicCompleteness ==
    visited.id # Undefined =>
        LET xs == getInstances(visited.id)
            n == Len(xs)
        IN  /\ n >= 1
            /\ Len(visited.seq) \in 1..(n + 1)
            /\ \A i \in 1..Len(visited.seq) :
                   visited.seq[i] = xs[((i - 1) % n) + 1]
            /\ state.focus =
                   [id |-> visited.id, instance |-> visited.seq[Len(visited.seq)]]

\* Three instances with a gap, all visited in order, then the first again.
C6_Witness ==
    /\ visited.id = 9 /\ getInstances(9) = <<0, 2, 3>>
    /\ visited.seq = <<0, 2, 3, 0>>

\* ---- C5 -------------------------------------------------------------------
\* The element after the first occurrence of `current` in xs, the first
\* element when `current` is the last one or does not occur (xs non-empty).
Successor(xs, current) ==
    LET at == {i \in 1..Len(xs) : xs[i] = current}
        first == CHOOSE i \in at : \A j \in at : i <= j
    IN  IF at # {} /\ first < Len(xs) THEN xs[first + 1] ELSE xs[1]

\* C5: FOCUS_SURFACE(target) with a live instance of target: from an absent
\* focus or a focus on another id the focus becomes (target, first of the
\* list); from a focus on target it becomes (target, successor of the focused
\* instance in the list).
C5_FocusFirstOrNext ==
    (last.op = "focus" /\ Len(NewList) >= 1) =>
        IF pre.state.focus.id # last.id
        THEN state.focus = [id |-> last.id, instance |-> NewList[1]]
        ELSE state.focus =
                 [id |-> last.id,
                  instance |-> Successor(NewList, pre.state.focus.instance)]

\* A focus on (9, 0) advanced to (9, 2) over a gap.
C5_Witness ==
    /\ last.op = "focus" /\ last.id = 9
    /\ getInstances(9) = <<0, 2>>
    /\ pre.state.focus = [id |-> 9, instance |-> 0]
    /\ state.focus = [id |-> 9, instance |-> 2]

\* A focus moved from another id to the first instance of the target.
C5_WitnessFirst ==
    /\ last.op = "focus" /\ last.id = 9
    /\ pre.state.focus.id = 7
    /\ getInstances(9) = <<1, 2>>
    /\ state.focus = [id |-> 9, instance |-> 1]

\* ---- C7 -------------------------------------------------------------------
\* C7: nextInstance(id, current) on a non-empty list returns the element
\* right after current, and the first element when current is the last
\* element or is not in the list.
C7_NextInstanceWraps ==
    (last.op = "next" /\ Len(NewList) >= 1) =>
        /\ last.ret = Successor(NewList, last.instance)
        /\ (last.instance = NewList[Len(NewList)] => last.ret = NewList[1])
        /\ (last.instance \notin Range(NewList) => last.ret = NewList[1])

\* The wrap across gaps: list [0, 2, 3], current 3, result 0.
C7_Witness ==
    /\ last.op = "next" /\ NewList = <<0, 2, 3>>
    /\ last.instance = 3 /\ last.ret = 0

\* ---- C8 -------------------------------------------------------------------
\* C8: FOCUS_SURFACE(target) with no live instance of target leaves the
\* focus pointer as it was.
C8_FocusOnEmptyIsNoOp ==
    (last.op = "focus" /\ Len(NewList) = 0) => state.focus = pre.state.focus

\* ---- C9 -------------------------------------------------------------------
\* C9: remove(id, instance) for an id without entry or an instance not in
\* the list leaves the registry as it was; remove is possible in every
\* state; and after remove(id, n) the number n is not in the list, so the
\* same call made again changes nothing.
C9_RemoveAbsentIsNoOp ==
    /\ \A id \in Ids, instance \in Instances : ENABLED removeInstance(id, instance)
    /\ last.op = "remove" =>
          /\ last.instance \notin Range(OldList) =>
                 surfaceInstances = pre.surfaceInstances
          /\ last.instance \notin Range(NewList)

\* remove(7, 1) on the list [0, 2], as left by an earlier remove(7, 1).
C9_Witness ==
    /\ last.op = "remove" /\ last.id = 7 /\ last.instance = 1
    /\ OldList = <<0, 2>> /\ NewList = <<0, 2>>

\* ---- C10 ------------------------------------------------------------------
\* C10: remove(id, k) with k in the list leaves the old list without k, the
\* other numbers in their order, and the lists of the other ids untouched.
C10_RemoveDeletesExactlyOne ==
    (last.op = "remove" /\ last.instance \in Range(OldList)) =>
        /\ Len(NewList) = Len(OldList) - 1
        /\ NewList = SelectSeq(OldList, LAMBDA x : x # last.instance)
        /\ DOMAIN surfaceInstances = DOMAIN pre.surfaceInstances
        /\ \A id \in DOMAIN surfaceInstances \ {last.id} :
               surfaceInstances[id] = pre.surfaceInstances[id]

\* A removal from the middle of a list while the other id has instances.
C10_Witness ==
    /\ last.op = "remove" /\ last.id = 7 /\ last.instance = 1
    /\ OldList = <<0, 1, 2>> /\ NewList = <<0, 2>>
    /\ getInstances(9) = <<0, 1>>

\* ---- C11 ------------------------------------------------------------------
\* A Surface counts as mounted from its register call to its cleanup.
IsMounted(o) == occ[o].phase \in {"registered", "shown", "detached"}

MountedAt(id) == {o \in Positions : Occurrences[o] = id /\ IsMounted(o)}

\* C11: after any interleaving of mounts and unmounts the live list of an id
\* is empty exactly when no occurrence of that id is mounted.
C11_EmptyIffNoneMounted ==
    \A id \in Ids : (Len(getInstances(id)) = 0) <=> (MountedAt(id) = {})

\* The list of 7 is empty again after its last occurrence left, 9 still mounted.
C11_Witness ==
    /\ last.op = "remove" /\ last.id = 7 /\ OldList = <<2>>
    /\ HasEntry(surfaceInstances, 7) /\ getInstances(7) = <<>>
    /\ MountedAt(7) = {} /\ MountedAt(9) # {}

\* ---- C12 ------------------------------------------------------------------
\* The numbers held by the mounted occurrences of id.
HeldAt(id) == {occ[o].instance : o \in MountedAt(id)}

\* Every cleanup removes one number of its own id, and the numbers left in
\* the list are those of the occurrences still mounted, one each.
PairedCleanup ==
    /\ \A id \in Ids :
           /\ Range(getInstances(id)) = HeldAt(id)
           /\ Len(getInstances(id)) = Cardinality(MountedAt(id))
    /\ (last.op = "remove" /\ actor \in Positions) =>
           /\ last.id = Occurrences[actor]
           /\ last.instance \in Range(OldList)
           /\ Len(NewList) = Len(OldList) - 1
           /\ occ[actor].phase = "unmounted"

\* C12: every unmounted occurrence gets its cleanup, which calls remove once
\* with the id and the number its own register call returned, however the
\* occurrences of one id interleave.
C12_LifecyclePairing ==
    /\ []PairedCleanup
    /\ \A o \in Positions :
           (occ[o].phase = "detached") ~> (occ[o].phase = "unmounted")

\* The older of two occurrences of 7 was removed, the newer one stays.
C12_Witness ==
    /\ last.op = "remove" /\ actor = 1 /\ last.instance = 1
    /\ OldList = <<1, 2>> /\ getInstances(7) = <<2>>
    /\ occ[2].instance = 2 /\ occ[2].phase = "shown"

\* ---- C13 ------------------------------------------------------------------
\* The focus comparison a rendered Surface makes.
Matches(o) ==
    /\ occ[o].phase \in {"rendered", "registered", "shown"}
    /\ state.focus.id = Occurrences[o]
    /\ state.focus.instance = occ[o].surfaceInstance

\* The last step was the cleanup of the occurrence the focus pointed at.
FocusedWasCleanedUp ==
    /\ last.op = "remove" /\ actor \in Positions
    /\ last.instance \in Range(OldList)
    /\ pre.state.focus = [id |-> last.id, instance |-> last.instance]

\* C13 as stated: once the occurrence the focus points at has been
\* unmounted, the focus is absent.
C13_FocusClearedOnUnmount ==
    FocusedWasCleanedUp => state.focus = NoFocus

\* C13: once the occurrence the focus points at has been unmounted, the
\* focus pointer still holds the same pair, and no rendered occurrence
\* matches it.
C13_FocusKeptOnUnmount ==
    FocusedWasCleanedUp =>
        /\ state.focus = pre.state.focus
        /\ state.focus # NoFocus
        /\ \A o \in Positions : ~Matches(o)

\* The focus stays on (7, 1) after that occurrence left; (7, 0) is still shown.
C13_Witness ==
    /\ FocusedWasCleanedUp
    /\ state.focus = [id |-> 7, instance |-> 1]
    /\ getInstances(7) = <<0>>
    /\ \E o \in Positions : occ[o].phase = "shown" /\ Occurrences[o] = 7

\* ---- C16 ------------------------------------------------------------------
\* C16: no register, remove or render step of a Surface changes the store;
\* after the cleanup of the focused occurrence the focus pointer holds a
\* number that is no longer in the live list.
C16_StaleFocus ==
    /\ last.op \in {"register", "remove", "mount", "render", "unmount"} =>
           state = pre.state
    /\ FocusedWasCleanedUp => state.focus.instance \notin Range(NewList)

\* The focus points at (9, 0) and the list of 9 is empty.
C16_Witness ==
    /\ FocusedWasCleanedUp
    /\ state.focus = [id |-> 9, instance |-> 0]
    /\ getInstances(9) = <<>>

\* ---- C14 ------------------------------------------------------------------
\* C14: the overlay toggle inverts overlays and leaves the focus pointer and
\* the registry as they were; after two toggles in a row the store is what it
\* was before them.
C14_ToggleFlipsOverlays ==
    /\ last.op = "toggle" =>
           /\ state.overlays = ~pre.state.overlays
           /\ state.focus = pre.state.focus
           /\ surfaceInstances = pre.surfaceInstances
    /\ toggled.n = 2 => state = toggled.start

\* Two toggles in a row with a focus set and instances registered.
C14_Witness ==
    /\ last.op = "toggle" /\ toggled.n = 2
    /\ state.focus = [id |-> 9, instance |-> 1]
    /\ getInstances(9) = <<0, 1>> /\ state.overlays

\* ---- C17 ------------------------------------------------------------------
\* C17: a focus command leaves the registry and overlays as they were; the
\* registry changes only in register and remove, the focus pointer only in
\* a focus command.
C17_SingleWriterPaths ==
    /\ last.op = "focus" =>
           /\ surfaceInstances = pre.surfaceInstances
           /\ state.overlays = pre.state.overlays
    /\ surfaceInstances # pre.surfaceInstances => last.op \in {"register", "remove"}
    /\ state.focus # pre.state.focus => last.op = "focus"

\* A focus command that advanced the focus with the overlays switched off.
C17_Witness ==
    /\ last.op = "focus" /\ ~state.overlays
    /\ pre.state.focus = [id |-> 7, instance |-> 0]
    /\ state.focus = [id |-> 7, instance |-> 2]
    /\ getInstances(7) = <<0, 2>>

\* ---- C15 ------------------------------------------------------------------
\* C15: collectIds returns exactly the ids that occur at some position of
\* the tree, the ids of stacks included, each of them once.
C15_CollectIdsIsTheIdSet ==
    /\ Range(collected) = added
    /\ NoDuplicates(collected)

\* Scenario B: [leaf(1), stack(2, [leaf(1), leaf(3)])] gives {1, 2, 3}.
C15_Witness ==
    /\ forest = <<Card(1), Stack(2, <<Card(1), Card(3)>>)>>
    /\ Range(collected) = {1, 2, 3} /\ Len(collected) = 3

\* ---- C18 ------------------------------------------------------------------
\* C18: the focus is absent, or a pair whose id and instance are both numbers.
C18_FocusNeverPartial ==
    \/ state.focus = NoFocus
    \/ state.focus.id # Undefined /\ state.focus.instance # Undefined

\* ---- C19 ------------------------------------------------------------------
\* C19: at most one rendered occurrence matches the focus pointer, those
\* whose effect has not run yet included.
C19_SingleFocusedOccurrence ==
    \A o, p \in Positions : (Matches(o) /\ Matches(p)) => o = p

\* ---- C20 ------------------------------------------------------------------
\* C20: an occurrence that is rendered but has not got its number from
\* register yet never matches the focus pointer.
C20_NoMatchBeforeRegister ==
    \A o \in Positions : occ[o].phase = "rendered" => ~Matches(o)

\* ---- C23 ------------------------------------------------------------------
StrictlyAscending(xs) == \A i, j \in 1..Len(xs) : i < j => xs[i] < xs[j]

\* C23: the live list of every id is strictly ascending, and every register
\* puts its number, greater than all the earlier ones, at the end: the order
\* of the list is both the order of registration and the numeric order.
C23_ListsAscending ==
    /\ \A id \in Ids : StrictlyAscending(getInstances(id))
    /\ last.op = "register" =>
           /\ NewList[Len(NewList)] = last.ret
           /\ \A i \in 1..(Len(NewList) - 1) : NewList[i] < last.ret

\* A list with a gap that got a further number.
C23_Witness ==
    /\ last.op = "register" /\ last.id = 9 /\ last.ret = 3
    /\ getInstances(9) = <<0, 2, 3>>

\* ---- C21 ------------------------------------------------------------------
\* The focus pointers a live list can give: none, or an id with a number.
FocusComplete == state.focus = NoFocus \/ state.focus.instance # Undefined

\* The number in the component state of a Surface: after the effect it is the
\* number setSurfaceInstance was given, whether the render that shows it has
\* run or not (so a render alone never changes it).
StateNumber(o) ==
    IF occ[o].phase = "registered" THEN occ[o].instance ELSE occ[o].surfaceInstance

\* The comparison of Surface on that number.
MatchesState(o) ==
    /\ occ[o].phase \in {"rendered", "registered", "shown"}
    /\ state.focus.id = Occurrences[o]
    /\ state.focus.instance = StateNumber(o)

\* C21: a step that leaves the focus pointer unchanged leaves the match of
\* every occurrence that is in the tree after it unchanged: no mount,
\* register, render or remove makes an occurrence start or stop matching.
\* (Stated for complete focus pointers; the pointer (id, undefined) of C8
\* breaks it already at the mount.)
C21_MatchOnlyByFocusChange ==
    [][(state'.focus = state.focus /\ FocusComplete) =>
           \A o \in Positions :
               occ'[o].phase \in {"rendered", "registered", "shown"} =>
                   (MatchesState(o)' <=> MatchesState(o))]_vars

\* ---- Card and Stack: useScrollIntoView ------------------------------------
\* The test of the effect, for the component inside the Surface at o: the
\* context holds datum.id and the surfaceInstance of the Surface's last
\* render; an absent focus is falsy.
ScrollCondition(o) ==
    /\ occ[o].phase \in {"rendered", "registered", "shown"}
    /\ state.focus # NoFocus
    /\ state.focus.id = Occurrences[o]
    /\ state.focus.instance = occ[o].surfaceInstance

\* The effects of one commit.  Every render of a Card or Stack builds a new
\* default `options` object, so the dependency list differs from the last
\* one and the effect runs after every render; its ref is attached, so it
\* calls scrollIntoView exactly when the test holds.  wasMatched keeps the
\* test as it was at the render before.
useScrollIntoView(rendered) ==
    scroll' = [o \in Positions |->
                  [fired |-> o \in rendered /\ ScrollCondition(o)',
                   wasMatched |-> ScrollCondition(o)]]

\* A new value of state$ renders every component that reads it; a Surface
\* whose setSurfaceInstance is pending renders in RenderSurface.
Subscribers == {o \in Positions : occ[o].phase \in {"rendered", "shown"}}

NextScroll ==
    \/ \E o \in Positions : MountSurface(o) /\ useScrollIntoView({o})
           /\ UNCHANGED <<released, visited, toggleVars, treeVars>>
    \/ \E o \in Positions : RunEffect(o) /\ useScrollIntoView({})
           /\ UNCHANGED <<released, visited, toggleVars, treeVars>>
    \/ \E o \in Positions : RenderSurface(o) /\ useScrollIntoView({o})
           /\ UNCHANGED <<released, visited, toggleVars, treeVars>>
    \/ \E o \in Positions : UnmountSurface(o) /\ useScrollIntoView({})
           /\ UNCHANGED <<released, visited, toggleVars, treeVars>>
    \/ \E o \in Positions : RunCleanup(o) /\ useScrollIntoView({})
           /\ UNCHANGED <<released, visited, toggleVars, treeVars>>
    \/ \E surfaceId \in Ids : FocusSurface(surfaceId) /\ useScrollIntoView(Subscribers)
           /\ UNCHANGED <<released, visited, toggleVars, treeVars>>

SpecScroll == Init /\ [][NextScroll]_vars

\* ---- C22 ------------------------------------------------------------------
\* C22: scrollIntoView is called for an occurrence only in a step in which
\* its match with the focus pointer turns from false to true; a render or a
\* store update that leaves it matched does not call it again.  (Stated for
\* focus pointers with a number; the pointer (id, undefined) of C8 repeats
\* the call as well.)
C22_ScrollOnlyOnTransition ==
    \A o \in Positions :
        (scroll[o].fired /\ state.focus.instance # Undefined) => ~scroll[o].wasMatched

====
